---- MODULE Spec2Model ----
(***************************************************************************)
(* Model of crates/editor/src/hover_popover.rs: the editor's hover state   *)
(* (info popover, diagnostic popover, the stored request task), the        *)
(* show_hover / hide_hover entry points and the asynchronous request task  *)
(* that show_hover spawns; the rendering of the hover state                 *)
(* (HoverState::render, InfoPopover::render and its cache,                 *)
(* DiagnosticPopover::activation_info); and render_blocks with render_code *)
(* and new_paragraph, as a loop over blocks and Markdown events.           *)
(*                                                                         *)
(* An Option<T> is modelled as a sequence: None is << >>, Some(x) is       *)
(* << x >>.  A Range<usize> a..b is the pair << a, b >> (half open).       *)
(* Display points are identified with the multibuffer offset they convert  *)
(* to; the buffer is not edited, so an anchor is the offset it was made at *)
(* and anchor comparison is comparison of offsets.                         *)
(***************************************************************************)
EXTENDS Integers, Sequences, FiniteSets, TLC

VARIABLES
    hover_popover_enabled,  \* Settings::hover_popover_enabled
    pending_rename,         \* editor.pending_rename.is_some()
    project,                \* editor.project.is_some()
    info_popover,           \* hover_state.info_popover : Option<InfoPopover>
    diagnostic_popover,     \* hover_state.diagnostic_popover : Option<DiagnosticPopover>
    triggered_from,         \* hover_state.triggered_from : Option<Anchor>
    info_task,              \* hover_state.info_task : Option<Task>, the index of the task in tasks
    background_highlights,  \* editor's background highlights of type HoverState: Option<Range>
    tasks,                  \* every request task spawned so far, in spawn order
    render                  \* a call of render_blocks: its argument, its position and its locals

vars == << hover_popover_enabled, pending_rename, project, info_popover,
           diagnostic_popover, triggered_from, info_task, background_highlights,
           tasks, render >>

hover_vars == << info_popover, diagnostic_popover, triggered_from, info_task,
                 background_highlights >>

----------------------------------------------------------------------------
(* Bounds and program constants *)

MaxTasks == 3

\* the most inline pieces in a paragraph of a rendered document
MaxInline == 3

\* the most blocks in a rendered list of blocks
MaxBlocks == 2

\* the most items in a list of a rendered document
MaxItems == 2

HOVER_DELAY_MILLIS == 350

HOVER_REQUEST_DELAY_MILLIS == 200

\* amounts by which the clock advances in one step
TickSteps == {150, 200}

\* the offsets of the buffer a display point converts to
Offsets == 0 .. 2

None == << >>

Some(x) == << x >>

----------------------------------------------------------------------------
(* The buffer snapshot: diagnostics and symbols *)

\* the diagnostic set of the buffer, in its iteration order
Diagnostics ==
    << [range |-> <<1, 3>>, diagnostic |-> [group_id |-> 1, is_primary |-> FALSE, message |-> "d1"]],
       [range |-> <<1, 3>>, diagnostic |-> [group_id |-> 3, is_primary |-> TRUE,  message |-> "d2"]],
       [range |-> <<2, 4>>, diagnostic |-> [group_id |-> 1, is_primary |-> TRUE,  message |-> "d3"]],
       [range |-> <<2, 3>>, diagnostic |-> [group_id |-> 2, is_primary |-> FALSE, message |-> "d4"]] >>

\* the symbols of the buffer the language server knows a range for
SymbolRanges == { <<0, 2>>, <<2, 3>> }

\* Range::contains
Contains(range, offset) == range[1] <= offset /\ offset < range[2]

\* snapshot.buffer_snapshot.diagnostics_in_range(offset..offset, false)
diagnostics_in_range(offset) ==
    LET Covers(e) == Contains(e.range, offset)
    IN  SelectSeq(Diagnostics, Covers)

\* snapshot.buffer_snapshot.diagnostic_group(group_id)
diagnostic_group(group_id) ==
    LET InGroup(e) == e.diagnostic.group_id = group_id
    IN  SelectSeq(Diagnostics, InGroup)

\* the key of min_by_key: entry.range.end - entry.range.start
RangeLen(entry) == entry.range[2] - entry.range[1]

\* mutant: among equally short entries the last one is returned
RECURSIVE min_by_key_LastMinimum(_, _)
min_by_key_LastMinimum(s, best) ==
    IF s = << >> THEN best
    ELSE min_by_key_LastMinimum(Tail(s),
                    IF best = None \/ RangeLen(Head(s)) <= RangeLen(best[1])
                    THEN Some(Head(s)) ELSE best)

\* Iterator::min_by_key as a left fold: a later element replaces the best one
\* only when its key is strictly smaller, so the first minimum is returned
RECURSIVE min_by_key(_, _)
min_by_key(s, best) ==
    IF s = << >> THEN best
    ELSE min_by_key(Tail(s),
                    IF best = None \/ RangeLen(Head(s)) < RangeLen(best[1])
                    THEN Some(Head(s)) ELSE best)

\* Iterator::find(|diagnostic| diagnostic.diagnostic.is_primary)
RECURSIVE find_primary(_)
find_primary(s) ==
    IF s = << >> THEN None
    ELSE IF Head(s).diagnostic.is_primary THEN Some(Head(s))
    ELSE find_primary(Tail(s))

\* the entry with the most specific range among those covering the offset
local_diagnostic(offset) == min_by_key(diagnostics_in_range(offset), None)

\* the primary entry of the local diagnostic's group
primary_diagnostic(local) ==
    IF local = None THEN None
    ELSE find_primary(diagnostic_group(local[1].diagnostic.group_id))

\* the value assigned to hover_state.diagnostic_popover by the request task
DiagnosticPopoverAt(offset) ==
    LET local == local_diagnostic(offset)
    IN  IF local = None THEN None
        ELSE Some([local_diagnostic |-> local[1],
                   primary_diagnostic |-> primary_diagnostic(local)])

----------------------------------------------------------------------------
(* Hover contents.  The text of a PlainText or Code block is a sequence of  *)
(* one-character strings, so its length is its length in bytes.  The text   *)
(* of a Markdown block is identified with the sequence of events that       *)
(* pulldown_cmark's Parser::new_ext yields for it.                          *)

\* pulldown_cmark::Event and Tag, as far as render_blocks tells them apart
Text(t) == [event |-> "Text", text |-> t]

Code(t) == [event |-> "Code", text |-> t]

\* inline HTML: one of the events render_blocks ignores
Html(t) == [event |-> "Html", text |-> t]

Start(tag) == [event |-> "Start", tag |-> tag]

End(tag) == [event |-> "End", tag |-> tag]

HardBreak == [event |-> "HardBreak"]

SoftBreak == [event |-> "SoftBreak"]

Paragraph == [name |-> "Paragraph"]

Heading == [name |-> "Heading"]

Emphasis == [name |-> "Emphasis"]

Strong == [name |-> "Strong"]

\* a tag render_blocks ignores
BlockQuote == [name |-> "BlockQuote"]

Link(url) == [name |-> "Link", url |-> url]

\* Tag::List(Option<u64>): the first number of an ordered list, None for a bullet list
List(number) == [name |-> "List", number |-> number]

Item == [name |-> "Item"]

\* Tag::CodeBlock(CodeBlockKind::Fenced(language))
Fenced(language) == [name |-> "CodeBlock", fenced |-> TRUE, language |-> language]

\* Tag::CodeBlock(CodeBlockKind::Indented)
Indented == [name |-> "CodeBlock", fenced |-> FALSE]

\* HighlightStyle::default()
DefaultStyle == [color |-> None, weight |-> None, italic |-> None, underline |-> None]

\* the languages of the registry that are loaded
LoadedLanguages == {"rust"}

\* language_registry.language_for_name(name).now_or_never().and_then(Result::ok)
language_for_name(language_registry, name) ==
    IF name \in language_registry THEN Some(name) ELSE None

\* the capture the grammar assigns to a character: "f" is a keyword, "x" has a
\* capture the theme has no style for
CaptureOf(c) ==
    IF c = "f" THEN Some("keyword") ELSE IF c = "x" THEN Some("unthemed") ELSE None

\* language.highlight_text(content, 0..content.len()): the captured chunks of the
\* content in order, as (range, highlight id); a chunk is a maximal run of
\* characters with one capture
RECURSIVE highlight_text(_, _, _)
highlight_text(content, i, chunks) ==
    IF i > Len(content) THEN chunks
    ELSE LET capture == CaptureOf(content[i])
             n       == Len(chunks)
         IN  IF capture = None THEN highlight_text(content, i + 1, chunks)
             ELSE IF n > 0 /\ chunks[n].range[2] = i - 1 /\ chunks[n].highlight_id = capture[1]
             THEN highlight_text(content, i + 1,
                                 [chunks EXCEPT ![n].range = << @[1], i >>])
             ELSE highlight_text(content, i + 1,
                                 Append(chunks, [range |-> << i - 1, i >>,
                                                 highlight_id |-> capture[1]]))

\* highlight_id.style(&style.syntax)
SyntaxStyle(highlight_id) ==
    IF highlight_id = "keyword"
    THEN Some([DefaultStyle EXCEPT !.color = Some("keyword")])
    ELSE None

\* the locals of render_blocks before the first block, with the registry it
\* was passed
NewRender(language_registry) ==
    [language_registry |-> language_registry, text |-> << >>, highlights |-> << >>, link_ranges |-> << >>, link_urls |-> << >>,
     bold_depth |-> 0, italic_depth |-> 0, link_url |-> None,
     current_language |-> None, list_stack |-> << >>]

\* the locals a Markdown block starts with
MarkdownLocals(r) ==
    [r EXCEPT !.bold_depth = 0, !.italic_depth = 0, !.link_url = None,
              !.current_language = None, !.list_stack = << >>]

\* new_paragraph(&mut text)
new_paragraph(text) ==
    IF text # << >>
    THEN (IF text[Len(text)] # "\n" THEN Append(text, "\n") ELSE text) \o << "\n" >>
    ELSE text

\* the highlights render_code pushes for the chunks from index i on
RECURSIVE PushChunks(_, _, _, _)
PushChunks(highlights, chunks, i, prev_len) ==
    IF i > Len(chunks) THEN highlights
    ELSE LET style == SyntaxStyle(chunks[i].highlight_id)
         IN  PushChunks(IF style # None
                        THEN Append(highlights,
                                    [range |-> << prev_len + chunks[i].range[1],
                                                  prev_len + chunks[i].range[2] >>,
                                     style |-> style[1]])
                        ELSE highlights,
                        chunks, i + 1, prev_len)

\* mutant: the chunks are pushed at their offsets in the content
render_code_Unshifted(r, content, language) ==
    [r EXCEPT !.text = @ \o content,
              !.highlights = PushChunks(@, highlight_text(content, 1, << >>), 1, 0)]

\* render_code(&mut text, &mut highlights, content, language, style)
render_code(r, content, language) ==
    LET prev_len == Len(r.text)
    IN  [r EXCEPT !.text = @ \o content,
                  !.highlights = PushChunks(@, highlight_text(content, 1, << >>), 1, prev_len)]

\* the style of a Text event outside a highlighted code block
NestingStyle(r) ==
    [DefaultStyle EXCEPT
        !.weight    = IF r.bold_depth > 0 THEN Some("BOLD") ELSE None,
        !.italic    = IF r.italic_depth > 0 THEN Some(TRUE) ELSE None,
        !.underline = IF r.link_url # None THEN Some("thickness 1.0") ELSE None]

\* mutant: a styled Text event always pushes a new highlight
PushTextHighlight_NeverMerges(highlights, prev_len, len, style) ==
    Append(highlights, [range |-> << prev_len, len >>, style |-> style])

\* the highlight of a styled Text event: the last highlight is extended when it
\* ends where the text starts and has the same style, otherwise one is pushed
PushTextHighlight(highlights, prev_len, len, style) ==
    LET n == Len(highlights)
    IN  IF n > 0 /\ highlights[n].range[2] = prev_len /\ highlights[n].style = style
        THEN [highlights EXCEPT ![n].range = << @[1], len >>]
        ELSE Append(highlights, [range |-> << prev_len, len >>, style |-> style])

\* Event::Text(t)
RenderText(r, t) ==
    IF r.current_language # None
    THEN render_code(r, t, r.current_language[1])
    ELSE LET text  == r.text \o t
             style == NestingStyle(r)
         IN  [r EXCEPT !.text = text,
                       !.highlights = IF style # DefaultStyle
                                      THEN PushTextHighlight(@, Len(r.text), Len(text), style)
                                      ELSE @]

\* Event::Code(t)
RenderCode(r, t) ==
    [r EXCEPT !.text = @ \o t,
              !.highlights = Append(@, [range |-> << Len(r.text), Len(r.text) + Len(t) >>,
                                        style |-> [DefaultStyle EXCEPT !.color = Some("red")]])]

Digit(d) == << "0", "1", "2", "3", "4", "5", "6", "7", "8", "9" >>[d + 1]

\* the Display of a u64: its decimal digits
RECURSIVE Decimal(_)
Decimal(n) == IF n < 10 THEN << Digit(n) >> ELSE Decimal(n \div 10) \o << Digit(n % 10) >>

\* the indent of an item: "  " pushed len - 1 times
RECURSIVE Indent(_)
Indent(levels) == IF levels = 0 THEN << >> ELSE << " ", " " >> \o Indent(levels - 1)

\* mutant: an item does not advance the number of its list
RenderItem_SameNumber(r) ==
    LET len == Len(r.list_stack)
    IN  IF len = 0 THEN r
        ELSE LET list_state == r.list_stack[len]
                 indented   == new_paragraph(r.text) \o Indent(len - 1)
             IN  IF list_state # None
                 THEN [r EXCEPT !.text = indented \o Decimal(list_state[1]) \o << ".", " " >>]
                 ELSE [r EXCEPT !.text = indented \o << "*", " " >>]

\* Event::Start(Tag::Item)
RenderItem(r) ==
    LET len == Len(r.list_stack)
    IN  IF len = 0 THEN r
        ELSE LET list_state == r.list_stack[len]
                 indented   == new_paragraph(r.text) \o Indent(len - 1)
             IN  IF list_state # None
                 THEN [r EXCEPT !.text = indented \o Decimal(list_state[1]) \o << ".", " " >>,
                                !.list_stack[len] = Some(list_state[1] + 1)]
                 ELSE [r EXCEPT !.text = indented \o << "*", " " >>]

\* Event::Start(tag)
RenderStart(r, tag) ==
    CASE tag.name = "Paragraph" -> [r EXCEPT !.text = new_paragraph(@)]
      [] tag.name = "Heading"   -> [r EXCEPT !.text = new_paragraph(@), !.bold_depth = @ + 1]
      [] tag.name = "CodeBlock" ->
            [r EXCEPT !.text = new_paragraph(@),
                      !.current_language = IF tag.fenced
                                           THEN language_for_name(r.language_registry,
                                                                  tag.language)
                                           ELSE @]
      [] tag.name = "Emphasis"  -> [r EXCEPT !.italic_depth = @ + 1]
      [] tag.name = "Strong"    -> [r EXCEPT !.bold_depth = @ + 1]
      [] tag.name = "Link"      -> [r EXCEPT !.link_url = Some(<< Len(r.text), tag.url >>)]
      [] tag.name = "List"      -> [r EXCEPT !.list_stack = Append(@, tag.number)]
      [] tag.name = "Item"      -> RenderItem(r)
      [] OTHER -> r

\* mutant: the end of a link leaves the url table alone
RenderEndLink_RangeOnly(r) ==
    IF r.link_url # None
    THEN [r EXCEPT !.link_ranges = Append(@, << r.link_url[1][1], Len(r.text) >>),
                   !.link_url = None]
    ELSE r

\* Event::End(Tag::Link(..))
RenderEndLink(r) ==
    IF r.link_url # None
    THEN [r EXCEPT !.link_ranges = Append(@, << r.link_url[1][1], Len(r.text) >>),
                   !.link_urls = Append(@, r.link_url[1][2]),
                   !.link_url = None]
    ELSE r

\* Event::End(tag)
RenderEnd(r, tag) ==
    CASE tag.name = "Heading"   -> [r EXCEPT !.bold_depth = @ - 1]
      [] tag.name = "CodeBlock" -> [r EXCEPT !.current_language = None]
      [] tag.name = "Emphasis"  -> [r EXCEPT !.italic_depth = @ - 1]
      [] tag.name = "Strong"    -> [r EXCEPT !.bold_depth = @ - 1]
      [] tag.name = "Link"      -> RenderEndLink(r)
      [] tag.name = "List"      -> [r EXCEPT !.list_stack = SubSeq(@, 1, Len(@) - 1)]
      [] OTHER -> r

\* the body of the loop over the events of a Markdown block
RenderEvent(r, e) ==
    CASE e.event = "Text"      -> RenderText(r, e.text)
      [] e.event = "Code"      -> RenderCode(r, e.text)
      [] e.event = "Start"     -> RenderStart(r, e.tag)
      [] e.event = "End"       -> RenderEnd(r, e.tag)
      [] e.event = "HardBreak" -> [r EXCEPT !.text = Append(@, "\n")]
      [] e.event = "SoftBreak" -> [r EXCEPT !.text = Append(@, " ")]
      [] OTHER -> r

RECURSIVE RenderEvents(_, _)
RenderEvents(r, events) ==
    IF events = << >> THEN r ELSE RenderEvents(RenderEvent(r, Head(events)), Tail(events))

\* HoverBlockKind::PlainText
RenderPlainText(r, block) == [r EXCEPT !.text = new_paragraph(@) \o block.text]

\* mutant: the content of a Code block of an unresolved language is dropped
RenderCodeBlock_DropsUnresolved(r, block) ==
    LET language == language_for_name(r.language_registry, block.language)
    IN  IF language # None THEN render_code(r, block.text, language[1])
        ELSE r

\* HoverBlockKind::Code { language }
RenderCodeBlock(r, block) ==
    LET language == language_for_name(r.language_registry, block.language)
    IN  IF language # None THEN render_code(r, block.text, language[1])
        ELSE [r EXCEPT !.text = @ \o block.text]

\* the body of the loop over the blocks
RenderBlock(r, block) ==
    CASE block.kind = "PlainText" -> RenderPlainText(r, block)
      [] block.kind = "Markdown"  -> RenderEvents(MarkdownLocals(r), block.text)
      [] block.kind = "Code"      -> RenderCodeBlock(r, block)

RECURSIVE RenderBlocks(_, _)
RenderBlocks(r, blocks) ==
    IF blocks = << >> THEN r ELSE RenderBlocks(RenderBlock(r, Head(blocks)), Tail(blocks))

\* the RenderedInfo built from the locals when the loop is over
RenderedInfo(theme_id, r) ==
    [theme_id |-> theme_id, text |-> r.text, highlights |-> r.highlights,
     link_ranges |-> r.link_ranges, link_urls |-> r.link_urls]

\* render_blocks(theme_id, blocks, language_registry, style), for the syntax
\* theme above
render_blocks(theme_id, blocks, language_registry) ==
    RenderedInfo(theme_id, RenderBlocks(NewRender(language_registry), blocks))

----------------------------------------------------------------------------
(* The language server's answers to a hover query *)

\* the documentation the server holds, as parsed: "one **two** three",
\* "one [two](the-url) three" and the list "1. a" / "2. b"
Documents ==
    << << Start(Paragraph), Text(<< "o", "n", "e", " " >>), Start(Strong),
          Text(<< "t", "w", "o" >>), End(Strong), Text(<< " ", "t", "h", "r", "e", "e" >>),
          End(Paragraph) >>,
       << Start(Paragraph), Text(<< "o", "n", "e", " " >>), Start(Link("the-url")),
          Text(<< "t", "w", "o" >>), End(Link("the-url")),
          Text(<< " ", "t", "h", "r", "e", "e" >>), End(Paragraph) >>,
       << Start(List(Some(1))), Start(Item), Text(<< "a" >>), End(Item),
          Start(Item), Text(<< "b" >>), End(Item), End(List(Some(1))) >> >>

\* the documentation block the server holds for a position
Doc(offset) == [kind |-> "Markdown", text |-> Documents[offset + 1]]

\* the ranges the server may declare for a position
ServerRanges(offset) == {None} \cup {Some(r) : r \in {s \in SymbolRanges : Contains(s, offset)}}

\* Result<Option<Hover>>: an error, no hover, a hover without contents, a hover with contents
Responses(offset) ==
    { [ok |-> FALSE, hover |-> None],
      [ok |-> TRUE,  hover |-> None],
      [ok |-> TRUE,  hover |-> Some([contents |-> << >>, range |-> None])] }
    \cup { [ok |-> TRUE, hover |-> Some([contents |-> << Doc(offset) >>, range |-> r])] :
             r \in ServerRanges(offset) }

NotIssued == [state |-> "none", response |-> [ok |-> FALSE, hover |-> None]]

Pending == [state |-> "pending", response |-> [ok |-> FALSE, hover |-> None]]

Ready(response) == [state |-> "ready", response |-> response]

----------------------------------------------------------------------------
(* Request tasks *)

\* the future spawned by show_hover, at its creation: not yet polled
NewTask(point, ignore_timeout) ==
    [point |-> point, ignore_timeout |-> ignore_timeout, pc |-> "spawned",
     elapsed |-> 0, hover_request |-> NotIssued, queried |-> FALSE]

\* Dropping a gpui Task handle cancels its future: it is never polled again and
\* its captured state, its timers and the hover request it owns are dropped with
\* it.  What remains is where it was triggered and whether its query had already
\* been sent to the server.
DropTask_Detached(ts, handle) == ts

DropTask(ts, handle) ==
    IF handle = None THEN ts
    ELSE [ts EXCEPT ![handle[1]] =
            [pc |-> "dropped", point |-> @.point, queried |-> @.queried]]

\* project.hover(&buffer, buffer_position, cx): the query is sent to the server
IssueQuery(task) == [task EXCEPT !.hover_request = Pending, !.queried = TRUE]

\* mutant: a response without contents makes a popover as well
InfoPopoverFrom_ShowsEmpty(response, anchor) ==
    IF ~response.ok \/ response.hover = None THEN None
    ELSE LET hover_result == response.hover[1]
         IN  Some([symbol_range |-> IF hover_result.range # None
                                     THEN hover_result.range[1]
                                     ELSE <<anchor, anchor>>,
                   blocks |-> hover_result.contents,
                   rendered_content |-> None])

\* hover_request.await.ok().flatten().and_then(..): the popover built from a response
InfoPopoverFrom(response, anchor) ==
    IF ~response.ok \/ response.hover = None THEN None
    ELSE LET hover_result == response.hover[1]
         IN  IF hover_result.contents = << >> THEN None
             ELSE Some([symbol_range |-> IF hover_result.range # None
                                         THEN hover_result.range[1]
                                         ELSE <<anchor, anchor>>,
                        blocks |-> hover_result.contents,
                        rendered_content |-> None])

\* HoverState::visible
visible == info_popover # None \/ diagnostic_popover # None

Min(a, b) == IF a <= b THEN a ELSE b

----------------------------------------------------------------------------
(* Initial state: HoverState::default() in an editor with or without a project *)

\* a call of render_blocks that has not entered its loop
RenderCall(blocks, language_registry) ==
    [blocks |-> blocks, block |-> 1, event |-> 0, r |-> NewRender(language_registry),
     returned |-> None]

Init ==
    /\ hover_popover_enabled = TRUE
    /\ pending_rename = FALSE
    /\ project \in BOOLEAN
    /\ info_popover = None
    /\ diagnostic_popover = None
    /\ triggered_from = None
    /\ info_task = None
    /\ background_highlights = None
    /\ tasks = << >>
    /\ render = RenderCall(<< >>, LoadedLanguages)

----------------------------------------------------------------------------
(* hide_hover and show_hover *)

\* mutant: hide_hover leaves the diagnostic popover in place
hide_hover_KeepsDiagnostic ==
    /\ info_popover' = None
    /\ info_task' = None
    /\ tasks' = DropTask(tasks, info_task)
    /\ triggered_from' = None
    /\ background_highlights' = None
    /\ UNCHANGED << render, hover_popover_enabled, pending_rename, project, diagnostic_popover >>

\* mutant: hide_hover leaves the symbol's background highlight in place
hide_hover_KeepsHighlight ==
    /\ info_popover' = None
    /\ diagnostic_popover' = None
    /\ info_task' = None
    /\ tasks' = DropTask(tasks, info_task)
    /\ triggered_from' = None
    /\ UNCHANGED << render, hover_popover_enabled, pending_rename, project,
                    background_highlights >>

\* hide_hover(editor, cx)
hide_hover ==
    /\ info_popover' = None
    /\ diagnostic_popover' = None
    /\ info_task' = None
    /\ tasks' = DropTask(tasks, info_task)
    /\ triggered_from' = None
    /\ background_highlights' = None
    /\ UNCHANGED << render, hover_popover_enabled, pending_rename, project >>

\* mutant: only the first offset of the symbol range counts as the same symbol
SameSymbol_StartOnly(point, ignore_timeout) ==
    /\ ~ignore_timeout
    /\ info_popover # None
    /\ info_popover[1].symbol_range[1] = point

\* the same-symbol check of show_hover: an info popover is shown, the trigger is
\* not immediate and the offset lies in the popover's symbol range
SameSymbol(point, ignore_timeout) ==
    /\ ~ignore_timeout
    /\ info_popover # None
    /\ Contains(info_popover[1].symbol_range, point)

\* mutant: whatever is shown is hidden, for either kind of trigger
HidesPrevious_WheneverVisible(ignore_timeout) == visible

\* whether show_hover, past the same-symbol check, calls hide_hover: only for a
\* trigger that is not immediate, and only when an info popover is shown
HidesPrevious(ignore_timeout) == ~ignore_timeout /\ info_popover # None

\* mutant: the task stored before is kept running when the new one is stored
ShowHoverProceeds_KeepsOldTask(point, ignore_timeout) ==
    LET hides       == HidesPrevious(ignore_timeout)
        anchor      == point
        from        == IF hides THEN None ELSE triggered_from
        task_before == IF hides THEN None ELSE info_task
        tasks_before == IF hides THEN DropTask(tasks, info_task) ELSE tasks
        same_location == from # None /\ from[1] = anchor
    IN  /\ info_popover' = IF hides THEN None ELSE info_popover
        /\ diagnostic_popover' = IF hides THEN None ELSE diagnostic_popover
        /\ background_highlights' = IF hides THEN None ELSE background_highlights
        /\ triggered_from' = from
        /\ IF same_location
           THEN /\ info_task' = task_before
                /\ tasks' = tasks_before
           ELSE /\ Len(tasks) < MaxTasks
                /\ tasks' = Append(tasks_before,
                                   NewTask(point, ignore_timeout))
                /\ info_task' = Some(Len(tasks) + 1)
        /\ UNCHANGED << render, hover_popover_enabled, pending_rename, project >>

\* show_hover past its early returns: hide_hover when an info popover of another
\* symbol is shown, then the same-location check, then the spawn of the task
ShowHoverProceeds(point, ignore_timeout) ==
    LET hides       == HidesPrevious(ignore_timeout)
        anchor      == point
        from        == IF hides THEN None ELSE triggered_from
        task_before == IF hides THEN None ELSE info_task
        tasks_before == IF hides THEN DropTask(tasks, info_task) ELSE tasks
        same_location == from # None /\ from[1] = anchor
    IN  /\ info_popover' = IF hides THEN None ELSE info_popover
        /\ diagnostic_popover' = IF hides THEN None ELSE diagnostic_popover
        /\ background_highlights' = IF hides THEN None ELSE background_highlights
        /\ triggered_from' = from
        /\ IF same_location
           THEN /\ info_task' = task_before
                /\ tasks' = tasks_before
           ELSE /\ Len(tasks) < MaxTasks
                /\ tasks' = Append(DropTask(tasks_before, task_before),
                                   NewTask(point, ignore_timeout))
                /\ info_task' = Some(Len(tasks) + 1)
        /\ UNCHANGED << render, hover_popover_enabled, pending_rename, project >>

\* mutant: show_hover does not look at pending_rename
show_hover_IgnoresRename(point, ignore_timeout) ==
    IF ~project \/ SameSymbol(point, ignore_timeout)
    THEN UNCHANGED vars
    ELSE ShowHoverProceeds(point, ignore_timeout)

\* show_hover(editor, point, ignore_timeout, cx).  The editor's multibuffer holds
\* the buffer, so text_anchor_for_position and excerpt_containing find the
\* offset; of the early returns that leaves the rename, the missing project and
\* the same-symbol check.  The spawned task is first polled after show_hover
\* has returned.
show_hover(point, ignore_timeout) ==
    IF pending_rename \/ ~project \/ SameSymbol(point, ignore_timeout)
    THEN UNCHANGED vars
    ELSE ShowHoverProceeds(point, ignore_timeout)

\* the Hover action: show_hover at the newest selection head, ignoring the timeout
hover == \E head \in Offsets : show_hover(head, TRUE)

\* hover_at(editor, point, cx), point an Option<DisplayPoint>
hover_at ==
    \E point \in {None} \cup {Some(p) : p \in Offsets} :
        IF hover_popover_enabled
        THEN IF point # None THEN show_hover(point[1], FALSE) ELSE hide_hover
        ELSE UNCHANGED vars

\* hide_hover called by the editor when the selections change
SelectionsChanged == hide_hover

----------------------------------------------------------------------------
(* The request task spawned by show_hover, one action per resumption *)

\* mutant: the diagnostic is assigned only when the server has answered
PublishDiagnostic_AfterResponse(task) ==
    IF task.hover_request.state = "ready"
    THEN DiagnosticPopoverAt(task.point)
    ELSE diagnostic_popover

\* this.update(..): hover_state.diagnostic_popover = local_diagnostic.map(..)
PublishDiagnostic(task) == DiagnosticPopoverAt(task.point)

\* whether a timer of the given length, started at the task's first poll, has fired
TimerFired(task, millis) == task.elapsed >= millis

\* mutant: the first poll starts the timers whatever ignore_timeout is
TaskFirstPoll_AlwaysDelays(t) ==
    /\ tasks[t].pc = "spawned"
    /\ tasks' = [tasks EXCEPT ![t] = [@ EXCEPT !.pc = "request_delay"]]
    /\ UNCHANGED << render, hover_popover_enabled, pending_rename, project, info_popover,
                    diagnostic_popover, triggered_from, info_task,
                    background_highlights >>

\* mutant: the diagnostic popover is assigned at the first poll, before the timers
TaskFirstPoll_EagerDiagnostic(t) ==
    /\ tasks[t].pc = "spawned"
    /\ IF tasks[t].ignore_timeout
       THEN tasks' = [tasks EXCEPT ![t] = [IssueQuery(@) EXCEPT !.pc = "hover_request"]]
       ELSE tasks' = [tasks EXCEPT ![t] = [@ EXCEPT !.pc = "request_delay"]]
    /\ diagnostic_popover' = DiagnosticPopoverAt(tasks[t].point)
    /\ UNCHANGED << render, hover_popover_enabled, pending_rename, project, info_popover,
                    triggered_from, info_task, background_highlights >>

\* mutant: the query is sent at the first poll, before the request delay
TaskFirstPoll_EagerQuery(t) ==
    /\ tasks[t].pc = "spawned"
    /\ IF tasks[t].ignore_timeout
       THEN /\ tasks' = [tasks EXCEPT ![t] = [IssueQuery(@) EXCEPT !.pc = "hover_request"]]
            /\ diagnostic_popover' = DiagnosticPopoverAt(tasks[t].point)
       ELSE /\ tasks' = [tasks EXCEPT ![t] = [IssueQuery(@) EXCEPT !.pc = "request_delay"]]
            /\ UNCHANGED diagnostic_popover
    /\ UNCHANGED << render, hover_popover_enabled, pending_rename, project, info_popover,
                    triggered_from, info_task, background_highlights >>

\* First poll.  With ignore_timeout the task runs without a timer up to
\* hover_request.await: it sends the query and assigns the diagnostic popover.
\* Otherwise it starts both timers and awaits the request delay.
TaskFirstPoll(t) ==
    /\ tasks[t].pc = "spawned"
    /\ IF tasks[t].ignore_timeout
       THEN /\ tasks' = [tasks EXCEPT ![t] = [IssueQuery(@) EXCEPT !.pc = "hover_request"]]
            /\ diagnostic_popover' = PublishDiagnostic(tasks[t])
       ELSE /\ tasks' = [tasks EXCEPT ![t] = [@ EXCEPT !.pc = "request_delay"]]
            /\ UNCHANGED diagnostic_popover
    /\ UNCHANGED << render, hover_popover_enabled, pending_rename, project, info_popover,
                    triggered_from, info_task, background_highlights >>

\* mutant: the total delay is not awaited after the query is sent
TaskRequestDelayElapsed_SkipsTotalDelay(t) ==
    /\ tasks[t].pc = "request_delay"
    /\ tasks[t].elapsed >= HOVER_REQUEST_DELAY_MILLIS
    /\ tasks' = [tasks EXCEPT ![t] = [IssueQuery(@) EXCEPT !.pc = "hover_request"]]
    /\ diagnostic_popover' = DiagnosticPopoverAt(tasks[t].point)
    /\ UNCHANGED << render, hover_popover_enabled, pending_rename, project, info_popover,
                    triggered_from, info_task, background_highlights >>

\* The request delay has elapsed: the query is sent, then the total delay is
\* awaited; when that timer has fired as well the task goes on to the diagnostic.
TaskRequestDelayElapsed(t) ==
    /\ tasks[t].pc = "request_delay"
    /\ TimerFired(tasks[t], HOVER_REQUEST_DELAY_MILLIS)
    /\ IF TimerFired(tasks[t], HOVER_DELAY_MILLIS)
       THEN /\ tasks' = [tasks EXCEPT ![t] = [IssueQuery(@) EXCEPT !.pc = "hover_request"]]
            /\ diagnostic_popover' = PublishDiagnostic(tasks[t])
       ELSE /\ tasks' = [tasks EXCEPT ![t] = [IssueQuery(@) EXCEPT !.pc = "total_delay"]]
            /\ UNCHANGED diagnostic_popover
    /\ UNCHANGED << render, hover_popover_enabled, pending_rename, project, info_popover,
                    triggered_from, info_task, background_highlights >>

\* The total delay has elapsed: the diagnostic popover is assigned and the
\* response of the hover request is awaited.
TaskTotalDelayElapsed(t) ==
    /\ tasks[t].pc = "total_delay"
    /\ TimerFired(tasks[t], HOVER_DELAY_MILLIS)
    /\ tasks' = [tasks EXCEPT ![t] = [@ EXCEPT !.pc = "hover_request"]]
    /\ diagnostic_popover' = PublishDiagnostic(tasks[t])
    /\ UNCHANGED << render, hover_popover_enabled, pending_rename, project, info_popover,
                    triggered_from, info_task, background_highlights >>

\* mutant: a response without a result makes the task send the query again
TaskHoverResponse_Retries(t) ==
    /\ tasks[t].pc = "hover_request"
    /\ tasks[t].hover_request.state = "ready"
    /\ LET hover_popover == InfoPopoverFrom(tasks[t].hover_request.response, tasks[t].point)
       IN  /\ background_highlights' =
                 IF hover_popover # None THEN Some(hover_popover[1].symbol_range) ELSE None
           /\ info_popover' = hover_popover
           /\ tasks' = [tasks EXCEPT ![t] = IF hover_popover # None
                                            THEN [@ EXCEPT !.pc = "done"]
                                            ELSE IssueQuery(@)]
    /\ UNCHANGED << render, hover_popover_enabled, pending_rename, project, diagnostic_popover,
                    triggered_from, info_task >>

\* The response has arrived: the info popover is built and assigned, the symbol
\* is highlighted or the highlight is cleared, and the task ends.
TaskHoverResponse(t) ==
    /\ tasks[t].pc = "hover_request"
    /\ tasks[t].hover_request.state = "ready"
    /\ LET hover_popover == InfoPopoverFrom(tasks[t].hover_request.response, tasks[t].point)
       IN  /\ background_highlights' =
                 IF hover_popover # None THEN Some(hover_popover[1].symbol_range) ELSE None
           /\ info_popover' = hover_popover
    /\ tasks' = [tasks EXCEPT ![t] = [@ EXCEPT !.pc = "done"]]
    /\ UNCHANGED << render, hover_popover_enabled, pending_rename, project, diagnostic_popover,
                    triggered_from, info_task >>

TaskStep(t) ==
    \/ TaskFirstPoll(t)
    \/ TaskRequestDelayElapsed(t)
    \/ TaskTotalDelayElapsed(t)
    \/ TaskHoverResponse(t)

----------------------------------------------------------------------------
(* The environment: the clock, the language server, the rest of the editor *)

\* time passes for the timers of the tasks that wait on one
Tick ==
    /\ \E t \in DOMAIN tasks :
          /\ tasks[t].pc \in {"request_delay", "total_delay"}
          /\ tasks[t].elapsed < HOVER_DELAY_MILLIS
    /\ \E d \in TickSteps :
          tasks' = [t \in DOMAIN tasks |->
                      IF tasks[t].pc \in {"request_delay", "total_delay"}
                      THEN [tasks[t] EXCEPT !.elapsed = Min(@ + d, HOVER_DELAY_MILLIS)]
                      ELSE tasks[t]]
    /\ UNCHANGED << render, hover_popover_enabled, pending_rename, project, info_popover,
                    diagnostic_popover, triggered_from, info_task,
                    background_highlights >>

\* the language server answers a pending hover query
ServerResponds(t) ==
    /\ tasks[t].pc # "dropped"
    /\ tasks[t].hover_request.state = "pending"
    /\ \E response \in Responses(tasks[t].point) :
          tasks' = [tasks EXCEPT ![t] = [@ EXCEPT !.hover_request = Ready(response)]]
    /\ UNCHANGED << render, hover_popover_enabled, pending_rename, project, info_popover,
                    diagnostic_popover, triggered_from, info_task,
                    background_highlights >>

\* a rename starts or ends
ToggleRename ==
    /\ pending_rename' = ~pending_rename
    /\ UNCHANGED << render, hover_popover_enabled, project, info_popover, diagnostic_popover,
                    triggered_from, info_task, background_highlights, tasks >>

\* the hover_popover_enabled setting is changed
ToggleSetting ==
    /\ hover_popover_enabled' = ~hover_popover_enabled
    /\ UNCHANGED << render, pending_rename, project, info_popover, diagnostic_popover,
                    triggered_from, info_task, background_highlights, tasks >>

Next ==
    \/ hover
    \/ hover_at
    \/ SelectionsChanged
    \/ \E t \in DOMAIN tasks : TaskStep(t)
    \/ Tick
    \/ \E t \in DOMAIN tasks : ServerResponds(t)
    \/ ToggleRename
    \/ ToggleSetting

Spec == Init /\ [][Next]_vars

\* the executor polls a task that can run, a started timer fires, the server
\* answers a query it was sent
Fairness ==
    /\ WF_vars(Tick)
    /\ \A t \in 1 .. MaxTasks :
          /\ WF_vars(t \in DOMAIN tasks /\ TaskStep(t))
          /\ WF_vars(t \in DOMAIN tasks /\ ServerResponds(t))

SpecFair == Spec /\ Fairness

----------------------------------------------------------------------------
(* Rendering the hover state: HoverState::render, InfoPopover::render and   *)
(* DiagnosticPopover::activation_info.  The buffer is laid out in lines of  *)
(* two offsets, without folds or wraps.                                     *)

\* the theme ids a render may be called with
ThemeIds == {0, 1}

\* the ranges of display rows a render may be called with
VisibleRows == { <<0, 0>>, <<0, 1>>, <<1, 2>>, <<0, 2>> }

\* anchor.to_display_point(&snapshot.display_snapshot), as [row, column]
to_display_point(anchor) == [row |-> anchor \div 2, column |-> anchor % 2]

\* mutant: the popovers are positioned by the info popover when there is one
RenderAnchor_InfoFirst ==
    IF info_popover # None THEN Some(info_popover[1].symbol_range[1])
    ELSE IF diagnostic_popover # None
    THEN Some(diagnostic_popover[1].local_diagnostic.range[1])
    ELSE None

\* the anchor HoverState::render positions the popovers by: the start of the
\* local diagnostic's range, or else the start of the info popover's symbol range
RenderAnchor ==
    IF diagnostic_popover # None
    THEN Some(diagnostic_popover[1].local_diagnostic.range[1])
    ELSE IF info_popover # None THEN Some(info_popover[1].symbol_range[1])
    ELSE None

\* the value HoverState::render returns: None, or the display point and the
\* elements, each element named by the popover that rendered it
RenderResult(visible_rows) ==
    IF RenderAnchor = None THEN None
    ELSE LET point == to_display_point(RenderAnchor[1])
         IN  IF ~visible \/ ~Contains(visible_rows, point.row) THEN None
             ELSE Some([point |-> point,
                        elements |->
                           (IF diagnostic_popover # None THEN << "DiagnosticPopover" >> ELSE << >>)
                           \o (IF info_popover # None THEN << "InfoPopover" >> ELSE << >>)])

\* the cache of an info popover once a stamp of another theme is discarded
Invalidated(popover, theme_id) ==
    IF popover.rendered_content # None /\ popover.rendered_content[1].theme_id # theme_id
    THEN None ELSE popover.rendered_content

\* whether InfoPopover::render runs the closure of get_or_insert_with
Recomputes(popover, theme_id) == Invalidated(popover, theme_id) = None

\* mutant: a cached rendering is used whatever theme it was made for
InfoPopover_render_KeepsStaleCache(popover, theme_id) ==
    IF popover.rendered_content = None
    THEN [popover EXCEPT !.rendered_content = Some(render_blocks(theme_id, popover.blocks, LoadedLanguages))]
    ELSE popover

\* InfoPopover::render(&mut self, style, cx): the popover it leaves behind
InfoPopover_render(popover, theme_id) ==
    IF Recomputes(popover, theme_id)
    THEN [popover EXCEPT !.rendered_content = Some(render_blocks(theme_id, popover.blocks, LoadedLanguages))]
    ELSE [popover EXCEPT !.rendered_content = Invalidated(popover, theme_id)]

\* HoverState::render(&mut self, snapshot, style, visible_rows, cx)
HoverState_render(visible_rows, theme_id) ==
    /\ UNCHANGED << render, hover_popover_enabled, pending_rename, project, diagnostic_popover,
                    triggered_from, info_task, background_highlights, tasks >>
    /\ info_popover' =
          IF RenderResult(visible_rows) # None /\ info_popover # None
          THEN Some(InfoPopover_render(info_popover[1], theme_id))
          ELSE info_popover

\* the editor element paints the hover state
Paint == \E visible_rows \in VisibleRows, theme_id \in ThemeIds :
            HoverState_render(visible_rows, theme_id)

\* mutant: the locally hovered entry is the target whatever the group's primary is
activation_info_LocalOnly(popover) ==
    << popover.local_diagnostic.diagnostic.group_id, popover.local_diagnostic.range[1] >>

\* DiagnosticPopover::activation_info(&self) -> (usize, Anchor)
activation_info(popover) ==
    LET entry == IF popover.primary_diagnostic # None
                 THEN popover.primary_diagnostic[1]
                 ELSE popover.local_diagnostic
    IN  << entry.diagnostic.group_id, entry.range[1] >>

NextView ==
    \/ Next
    \/ Paint

\* the hover state of an editor that is painted while it is hovered
SpecView == Init /\ [][NextView]_vars

----------------------------------------------------------------------------
(* A call of render_blocks, one step per block or event, on the block lists *)
(* below: paragraphs of inline pieces, lists of blocks of every kind, and   *)
(* documents made of lists.                                                 *)

\* the sequences of 1 to n elements of S
SeqsUpTo(S, n) == UNION { [1 .. k -> S] : k \in 1 .. n }

\* the concatenation of a sequence of sequences
RECURSIVE Concat(_)
Concat(ss) == IF ss = << >> THEN << >> ELSE Head(ss) \o Concat(Tail(ss))

\* the events of an element: its start tag, its content, its end tag
Element(tag, content) == << Start(tag) >> \o content \o << End(tag) >>

MarkdownBlock(events) == [kind |-> "Markdown", text |-> events]

PlainTextBlock(text) == [kind |-> "PlainText", text |-> text]

CodeBlock(language, text) == [kind |-> "Code", language |-> language, text |-> text]

\* the inline pieces a paragraph is made of
InlinePieces ==
    { << Text(<< "a" >>) >>,
      << Code(<< "c" >>) >>,
      << Html(<< "<", "b", ">" >>) >>,
      << SoftBreak >>,
      Element(Strong, << Text(<< "b" >>) >>),
      Element(Emphasis, << Text(<< "e" >>), HardBreak >>),
      Element(Link("the-url"), << Text(<< "l" >>) >>),
      Element(Link("other-url"), Element(Strong, << Text(<< "s" >>) >>)) }

\* one Markdown block holding one paragraph
InlineInputs ==
    { << MarkdownBlock(Element(Paragraph, Concat(pieces))) >> :
         pieces \in SeqsUpTo(InlinePieces, MaxInline) }

\* blocks of every kind
BlockSamples ==
    { PlainTextBlock(<< "p" >>),
      PlainTextBlock(<< "q", "\n" >>),
      CodeBlock("rust", << "f", "x", "f", "f" >>),
      CodeBlock("cobol", << "f" >>),
      MarkdownBlock(Element(Heading, << Text(<< "h" >>) >>)
                    \o Element(Paragraph, Element(Strong, << Text(<< "b" >>) >>))),
      MarkdownBlock(Element(Fenced("rust"), << Text(<< "f", "a", "f", "\n" >>) >>)),
      MarkdownBlock(Element(Fenced("cobol"), << Text(<< "f", "\n" >>) >>)),
      MarkdownBlock(Element(Paragraph, << Text(<< "m" >>) >>)
                    \o Element(Fenced("rust"), << >>)
                    \o Element(Paragraph, << Text(<< "n" >>) >>)),
      MarkdownBlock(Element(Indented, << Text(<< "i", "\n" >>) >>)
                    \o Element(BlockQuote, Element(Paragraph, << Text(<< "k" >>) >>))) }

BlockInputs == SeqsUpTo(BlockSamples, MaxBlocks)

\* an item of a tight list: its text, then the list nested in it, if any
ItemOf(nested) == Element(Item, << Text(<< "a" >>) >> \o nested)

ListOf(number, items) == Element(List(number), Concat(items))

InnerLists ==
    { ListOf(number, [k \in 1 .. n |-> ItemOf(<< >>)]) :
         number \in {None, Some(1)}, n \in 1 .. MaxItems }

\* a list in a list in a list
DeepList ==
    ListOf(Some(1),
           << ItemOf(ListOf(None, << ItemOf(ListOf(Some(3), << ItemOf(<< >>), ItemOf(<< >>) >>)),
                                     ItemOf(<< >>) >>)),
              ItemOf(<< >>) >>)

ListInputs ==
    { << MarkdownBlock(ListOf(number, items)) >> :
         number \in {None, Some(1), Some(9)},
         items \in SeqsUpTo({ ItemOf(nested) : nested \in {<< >>} \cup InnerLists }, MaxItems) }
    \cup { << MarkdownBlock(DeepList) >> }

\* the registries render_blocks is called with: one that resolves no language,
\* the editor's, and one that resolves every language of the inputs
Registries == { {}, LoadedLanguages, {"rust", "cobol"} }

\* the block lists render_blocks is called with
RenderInputs == InlineInputs \cup BlockInputs \cup ListInputs

\* the block the loop over the blocks is at
CurrentBlock == render.blocks[render.block]

\* whether the call is between two blocks
BetweenBlocks ==
    /\ render.returned = None
    /\ render.event = 0
    /\ render.block <= Len(render.blocks)

\* a PlainText block is rendered
StepPlainText ==
    /\ BetweenBlocks
    /\ CurrentBlock.kind = "PlainText"
    /\ render' = [render EXCEPT !.r = RenderPlainText(@, CurrentBlock), !.block = @ + 1]
    /\ UNCHANGED << hover_popover_enabled, pending_rename, project, hover_vars, tasks >>

\* a Code block is rendered
StepCode ==
    /\ BetweenBlocks
    /\ CurrentBlock.kind = "Code"
    /\ render' = [render EXCEPT !.r = RenderCodeBlock(@, CurrentBlock), !.block = @ + 1]
    /\ UNCHANGED << hover_popover_enabled, pending_rename, project, hover_vars, tasks >>

\* a Markdown block is entered: its locals are initialized and its parser is made
StepMarkdown ==
    /\ BetweenBlocks
    /\ CurrentBlock.kind = "Markdown"
    /\ render' = [render EXCEPT !.r = MarkdownLocals(@), !.event = 1]
    /\ UNCHANGED << hover_popover_enabled, pending_rename, project, hover_vars, tasks >>

\* the parser yields the next event of the Markdown block, or none and the block is left
StepEvent ==
    /\ render.returned = None
    /\ render.event > 0
    /\ IF render.event <= Len(CurrentBlock.text)
       THEN render' = [render EXCEPT !.r = RenderEvent(@, CurrentBlock.text[render.event]),
                                     !.event = @ + 1]
       ELSE render' = [render EXCEPT !.event = 0, !.block = @ + 1]
    /\ UNCHANGED << hover_popover_enabled, pending_rename, project, hover_vars, tasks >>

\* the loop over the blocks is over: the RenderedInfo is returned
StepReturn ==
    /\ render.returned = None
    /\ render.block > Len(render.blocks)
    /\ render.blocks # << >>
    /\ \E theme_id \in ThemeIds :
          render' = [render EXCEPT !.returned = Some(RenderedInfo(theme_id, render.r))]
    /\ UNCHANGED << hover_popover_enabled, pending_rename, project, hover_vars, tasks >>

NextRender ==
    \/ StepPlainText
    \/ StepCode
    \/ StepMarkdown
    \/ StepEvent
    \/ StepReturn

InitRender ==
    /\ hover_popover_enabled = TRUE
    /\ pending_rename = FALSE
    /\ project = TRUE
    /\ info_popover = None
    /\ diagnostic_popover = None
    /\ triggered_from = None
    /\ info_task = None
    /\ background_highlights = None
    /\ tasks = << >>
    /\ render \in { RenderCall(blocks, language_registry) :
                      blocks \in RenderInputs, language_registry \in Registries }

\* render_blocks called on each of the block lists
SpecRender == InitRender /\ [][NextRender]_vars

----------------------------------------------------------------------------
(* Properties *)

\* the task stored in hover_state.info_task
StoredTask == tasks[info_task[1]]

\* a task that has not been dropped
Live(t) == tasks[t].pc # "dropped"

\* C1 (as stated): when the stored request was triggered at a location and has
\* sent its query, and a second trigger arrives at the same location with no
\* dismiss in between (none by hide_hover, none inside the second trigger), the
\* second trigger starts no new request.
C1_SameLocationStartsNoRequest ==
    [][\A p \in Offsets, immediate \in BOOLEAN :
          ( /\ info_task # None
            /\ StoredTask.point = p
            /\ StoredTask.queried
            /\ ~(~immediate /\ info_popover # None)
            /\ show_hover(p, immediate) )
          => tasks' = tasks]_vars

\* C2: a task whose handle is no longer the stored one (it was replaced by a
\* later trigger, or dismissed) is never resumed again, whatever timers expire
\* and whatever the server answers, so it publishes no popover and no highlight.
C2_SupersededTaskIsInert ==
    [][\A t \in DOMAIN tasks : info_task # Some(t) => ~TaskStep(t)]_vars

\* C2 witness: the request for one location was superseded while its query was
\* outstanding, and the request for another location has completed with a popover.
C2_Witness ==
    \E t \in DOMAIN tasks :
        /\ tasks[t].pc = "dropped"
        /\ tasks[t].queried
        /\ info_task # None
        /\ info_task[1] > t
        /\ StoredTask.pc = "done"
        /\ StoredTask.point # tasks[t].point
        /\ info_popover # None
        /\ info_popover[1].blocks = << Doc(StoredTask.point) >>

\* the step of task t that assigns hover_state.diagnostic_popover: the one
\* that takes it to the await of the hover response
AssignsDiagnostic(t) ==
    /\ Live(t)
    /\ tasks[t].pc \in {"spawned", "request_delay", "total_delay"}
    /\ TaskStep(t)
    /\ tasks'[t].pc = "hover_request"

C4_ImmediateWaitsOnNoTimer ==
    [][\A t \in DOMAIN tasks :
          (Live(t) /\ tasks[t].ignore_timeout) =>
              /\ tasks[t].pc \in {"spawned", "hover_request", "done"}
              /\ tasks[t].elapsed = 0
              /\ TaskFirstPoll(t) => tasks'[t].hover_request.state = "pending"
              /\ (tasks[t].pc = "hover_request" /\ tasks[t].hover_request.state = "ready")
                 => ENABLED TaskHoverResponse(t)
              /\ ( /\ TaskHoverResponse(t)
                   /\ tasks[t].hover_request.response.ok
                   /\ tasks[t].hover_request.response.hover # None
                   /\ tasks[t].hover_request.response.hover[1].contents # << >> )
                 => /\ info_popover' # None
                    /\ info_popover'[1].blocks =
                          tasks[t].hover_request.response.hover[1].contents ]_vars

\* C4 witness: a keyboard-triggered request has completed without any time
\* passing on a timer and its popover shows the server's blocks.
C4_Witness ==
    /\ info_task # None
    /\ Live(info_task[1])
    /\ StoredTask.ignore_timeout
    /\ StoredTask.pc = "done"
    /\ StoredTask.elapsed = 0
    /\ info_popover # None
    /\ info_popover[1].blocks = << Doc(StoredTask.point) >>

\* C5: while the stored task awaits the server's response, the diagnostic
\* popover computed for its offset is already assigned, whether or not the
\* server has answered.
C5_DiagnosticBeforeResponse ==
    \A t \in DOMAIN tasks :
        (info_task = Some(t) /\ tasks[t].pc = "hover_request")
        => diagnostic_popover = DiagnosticPopoverAt(tasks[t].point)

\* C5 witness: the diagnostic popover is shown, the info popover is not, and
\* the server has not answered the query.
C5_Witness ==
    /\ diagnostic_popover # None
    /\ info_popover = None
    /\ info_task # None
    /\ StoredTask.pc = "hover_request"
    /\ StoredTask.hover_request.state = "pending"
    /\ diagnostic_popover = DiagnosticPopoverAt(StoredTask.point)

\* C6 (as stated): once the task of a trigger with immediate=false has been
\* polled, the diagnostic popover for its offset is shown while its timers are
\* still running.
C6_DiagnosticBeforeDelays ==
    \A t \in DOMAIN tasks :
        ( /\ info_task = Some(t)
          /\ tasks[t].pc \in {"request_delay", "total_delay"}
          /\ ~tasks[t].ignore_timeout
          /\ DiagnosticPopoverAt(tasks[t].point) # None )
        => diagnostic_popover = DiagnosticPopoverAt(tasks[t].point)

\* C6 (amended): the diagnostic popover is assigned by exactly one step of the
\* task, the one that reaches the await of the response; for immediate=true
\* that is the first poll, for immediate=false it happens only once
\* HOVER_DELAY_MILLIS have elapsed; no other step of the task changes the slot.
C6_DiagnosticAfterTotalDelay ==
    [][\A t \in DOMAIN tasks :
          (Live(t) /\ TaskStep(t)) =>
              IF AssignsDiagnostic(t)
              THEN /\ diagnostic_popover' = DiagnosticPopoverAt(tasks[t].point)
                   /\ tasks[t].ignore_timeout \/ tasks[t].elapsed >= HOVER_DELAY_MILLIS
                   /\ tasks[t].ignore_timeout => tasks[t].pc = "spawned"
              ELSE UNCHANGED diagnostic_popover ]_vars

\* C6 witness: a mouse-triggered request at an offset with a diagnostic shows
\* the diagnostic popover after the total delay, the server not having answered.
C6_Witness ==
    /\ info_task # None
    /\ Live(info_task[1])
    /\ ~StoredTask.ignore_timeout
    /\ StoredTask.pc = "hover_request"
    /\ StoredTask.elapsed >= HOVER_DELAY_MILLIS
    /\ StoredTask.hover_request.state = "pending"
    /\ diagnostic_popover # None
    /\ diagnostic_popover = DiagnosticPopoverAt(StoredTask.point)

\* nothing is shown, stored or highlighted
HoverCleared ==
    /\ info_popover = None
    /\ diagnostic_popover = None
    /\ info_task = None
    /\ triggered_from = None
    /\ background_highlights = None

\* C7: when hide_hover returns, both popover slots, the stored task,
\* triggered_from and the background highlight are empty; called in a state
\* where they are empty already (such as the state a first call leaves), it
\* changes nothing.
C7_HideHoverClearsAndIsIdempotent ==
    [][hide_hover => (HoverCleared' /\ (HoverCleared => UNCHANGED vars))]_vars

\* C7 witness: hide_hover has dropped the latest request, whose query was
\* outstanding, and nothing is shown or stored.
C7_Witness ==
    /\ HoverCleared
    /\ tasks # << >>
    /\ tasks[Len(tasks)].pc = "dropped"
    /\ tasks[Len(tasks)].queried

\* an info popover is shown, the offset lies in its symbol range (start
\* included, end excluded) and the trigger is not immediate
Suppressed(p, immediate) ==
    /\ ~immediate
    /\ info_popover # None
    /\ info_popover[1].symbol_range[1] <= p
    /\ p < info_popover[1].symbol_range[2]

\* C8: a trigger with immediate=false at an offset inside the symbol range of
\* the info popover that is shown changes neither popover slot, nor
\* triggered_from, the stored task, the highlight or the set of requests.
C8_SameSymbolTriggerChangesNothing ==
    [][\A p \in Offsets :
          (Suppressed(p, FALSE) /\ show_hover(p, FALSE))
          => UNCHANGED << hover_vars, tasks >>]_vars

\* C8 witness: an info popover with a symbol range of more than one offset is
\* shown by a completed request, in an editor that accepts triggers.
C8_Witness ==
    /\ info_popover # None
    /\ info_popover[1].symbol_range[2] - info_popover[1].symbol_range[1] > 1
    /\ background_highlights = Some(info_popover[1].symbol_range)
    /\ info_task # None
    /\ StoredTask.pc = "done"
    /\ ~pending_rename
    /\ project
    /\ hover_popover_enabled

\* C9 (as stated): a trigger that is not suppressed by the same-symbol check,
\* in a view that is not renaming, returns with both popover slots empty and
\* the highlight cleared.
C9_TriggerClearsPopovers ==
    [][\A p \in Offsets, immediate \in BOOLEAN :
          (~pending_rename /\ ~Suppressed(p, immediate) /\ show_hover(p, immediate))
          => /\ info_popover' = None
             /\ diagnostic_popover' = None
             /\ background_highlights' = None]_vars

\* C9 (amended): a trigger that is not suppressed, in a view with a project
\* that is not renaming, clears both popover slots and the highlight only when
\* it is not immediate and an info popover is shown; an immediate trigger, and
\* a trigger while no info popover is shown (a diagnostic popover or not),
\* leaves both slots and the highlight as they are.
C9_OnlyMouseTriggerOffSymbolClears ==
    [][\A p \in Offsets, immediate \in BOOLEAN :
          ( /\ ~pending_rename
            /\ project
            /\ ~Suppressed(p, immediate)
            /\ show_hover(p, immediate) )
          => IF ~immediate /\ info_popover # None
             THEN /\ info_popover' = None
                  /\ diagnostic_popover' = None
                  /\ background_highlights' = None
             ELSE UNCHANGED << info_popover, diagnostic_popover,
                               background_highlights >>]_vars

\* C9 witness: an immediate trigger has just started a request while both
\* popovers of the previous request are still shown and highlighted.
C9_Witness ==
    /\ info_task # None
    /\ StoredTask.pc = "spawned"
    /\ StoredTask.ignore_timeout
    /\ info_popover # None
    /\ diagnostic_popover # None
    /\ background_highlights # None

\* a response that is an error, holds no hover, or holds a hover without contents
NoResult(response) ==
    \/ ~response.ok
    \/ response.hover = None
    \/ response.hover[1].contents = << >>

\* C10: when the stored task has ended on an error, on no hover or on a hover
\* without contents, no info popover is shown and the highlight is cleared, and
\* the editor still accepts a trigger at any offset, which starts a request.
C10_NoResultShowsNothing ==
    \A t \in DOMAIN tasks :
        ( /\ info_task = Some(t)
          /\ tasks[t].pc = "done"
          /\ NoResult(tasks[t].hover_request.response) )
        => /\ info_popover = None
           /\ background_highlights = None
           /\ (~pending_rename /\ project /\ Len(tasks) < MaxTasks)
              => \A p \in Offsets :
                    ENABLED (show_hover(p, TRUE) /\ Len(tasks') = Len(tasks) + 1)

\* C10 witness: a request has ended on a server error after an earlier request
\* had been made, and nothing of it is shown.
C10_Witness ==
    /\ info_task # None
    /\ info_task[1] > 1
    /\ StoredTask.pc = "done"
    /\ ~StoredTask.hover_request.response.ok
    /\ info_popover = None
    /\ background_highlights = None

\* C11: while a rename is pending, a trigger of either kind changes no field
\* of the hover state, spawns or replaces no task and sends no query.
C11_TriggerWhileRenamingIsNoOp ==
    [][\A p \in Offsets, immediate \in BOOLEAN :
          (pending_rename /\ show_hover(p, immediate))
          => UNCHANGED << hover_vars, tasks >>]_vars

\* C11 witness: a rename is pending in an editor that would otherwise start a
\* request (it has a project and room for a task) while a popover of another
\* symbol is shown.
C11_Witness ==
    /\ pending_rename
    /\ project
    /\ hover_popover_enabled
    /\ Len(tasks) < MaxTasks
    /\ info_popover # None
    /\ info_task # None
    /\ StoredTask.pc = "done"

\* C12: HoverState.render returns None exactly when no popover is present or the
\* row of the anchor is outside visible_rows, the anchor being the start of the
\* diagnostic popover's range when there is one and the start of the info
\* popover's symbol range otherwise; a returned list has one element per
\* popover present, the diagnostic popover's first.
C12_RenderAnchorsOnDiagnosticFirst ==
    LET present == diagnostic_popover # None \/ info_popover # None
        anchor  == IF diagnostic_popover # None
                   THEN diagnostic_popover[1].local_diagnostic.range[1]
                   ELSE info_popover[1].symbol_range[1]
        expected == IF diagnostic_popover # None /\ info_popover # None
                    THEN << "DiagnosticPopover", "InfoPopover" >>
                    ELSE IF diagnostic_popover # None THEN << "DiagnosticPopover" >>
                    ELSE << "InfoPopover" >>
    IN  \A visible_rows \in VisibleRows :
           LET result == RenderResult(visible_rows)
           IN  /\ result = None <=>
                     (~present \/ ~Contains(visible_rows, anchor \div 2))
               /\ result # None => result[1].elements = expected

\* both popovers are shown on different rows and the info popover was rendered
C12_Witness ==
    /\ diagnostic_popover # None /\ info_popover # None
    /\ diagnostic_popover[1].local_diagnostic.range[1] \div 2
          # info_popover[1].symbol_range[1] \div 2
    /\ info_popover[1].rendered_content # None

\* C13: activation_info returns the group id and the range start of the group's
\* primary entry whenever one was resolved, and those of the local entry only
\* when the group has no primary entry; the stored primary entry is an entry of
\* the local entry's group that is flagged primary.
C13_ActivationPrefersPrimary ==
    diagnostic_popover # None =>
        LET popover == diagnostic_popover[1]
            local   == popover.local_diagnostic
            group   == {i \in DOMAIN Diagnostics :
                          Diagnostics[i].diagnostic.group_id = local.diagnostic.group_id}
        IN  IF popover.primary_diagnostic # None
            THEN LET primary == popover.primary_diagnostic[1]
                 IN  /\ activation_info(popover)
                           = << primary.diagnostic.group_id, primary.range[1] >>
                     /\ \E i \in group : Diagnostics[i] = primary
                     /\ primary.diagnostic.is_primary
            ELSE /\ activation_info(popover)
                       = << local.diagnostic.group_id, local.range[1] >>
                 /\ \A i \in group : ~Diagnostics[i].diagnostic.is_primary

\* the popover of a diagnostic whose group has its primary entry elsewhere
C13_Witness ==
    /\ diagnostic_popover # None
    /\ diagnostic_popover[1].primary_diagnostic # None
    /\ diagnostic_popover[1].primary_diagnostic[1].range
          # diagnostic_popover[1].local_diagnostic.range

\* C14: whatever renders came before, a render of the info popover leaves a
\* cached RenderedInfo stamped with the theme id of that render; render_blocks
\* runs only when nothing is cached or the cached stamp is of another theme,
\* and otherwise the cache is left as it is; blocks and symbol_range are not
\* changed.
C14_RenderCacheFollowsTheme ==
    \A theme_id \in ThemeIds :
       info_popover # None =>
          LET before == info_popover[1]
              after  == InfoPopover_render(before, theme_id)
          IN  /\ after.rendered_content # None
              /\ after.rendered_content[1].theme_id = theme_id
              /\ after.rendered_content[1] = render_blocks(theme_id, before.blocks, LoadedLanguages)
              /\ Recomputes(before, theme_id)
                    <=> ( \/ before.rendered_content = None
                          \/ before.rendered_content[1].theme_id # theme_id )
              /\ ~Recomputes(before, theme_id)
                    => after.rendered_content = before.rendered_content
              /\ after.blocks = before.blocks
              /\ after.symbol_range = before.symbol_range

\* a popover rendered for one theme is about to be rendered for the other
C14_Witness ==
    /\ info_popover # None
    /\ info_popover[1].rendered_content # None
    /\ info_popover[1].rendered_content[1].theme_id = 1
    /\ info_popover[1].rendered_content[1].highlights # << >>

\* the events of the current Markdown block that have been rendered
Processed == SubSeq(CurrentBlock.text, 1, render.event - 1)

\* the call is in its first block, a Markdown block
InFirstMarkdownBlock ==
    /\ render.returned = None
    /\ render.block = 1
    /\ render.event > 0

\* one paragraph of text tokens, strong, emphasis and links
InlineMarkup(events) ==
    \A k \in DOMAIN events :
       \/ events[k].event = "Text"
       \/ /\ events[k].event \in {"Start", "End"}
          /\ \/ events[k].tag.name \in {"Strong", "Emphasis", "Link"}
             \/ events[k].tag.name = "Paragraph" /\ k \in {1, Len(events)}

\* the style the markup around a character asks for
MarkupStyle(strong, emphasis, link) ==
    [color |-> None,
     weight |-> IF strong > 0 THEN Some("BOLD") ELSE None,
     italic |-> IF emphasis > 0 THEN Some(TRUE) ELSE None,
     underline |-> IF link > 0 THEN Some("thickness 1.0") ELSE None]

\* the characters of the text tokens, in order, each with the style of the
\* markup it is nested in
RECURSIVE MarkedChars(_, _, _, _)
MarkedChars(events, strong, emphasis, link) ==
    IF events = << >> THEN << >>
    ELSE LET e    == Head(events)
             rest == Tail(events)
             Nest(name) == IF e.event = "Text" \/ e.tag.name # name THEN 0
                           ELSE IF e.event = "Start" THEN 1 ELSE -1
         IN  IF e.event = "Text"
             THEN [k \in 1 .. Len(e.text) |->
                      [char |-> e.text[k], style |-> MarkupStyle(strong, emphasis, link)]]
                  \o MarkedChars(rest, strong, emphasis, link)
             ELSE MarkedChars(rest, strong + Nest("Strong"), emphasis + Nest("Emphasis"),
                              link + Nest("Link"))

\* the maximal runs of characters of one style other than the default
MaximalRuns(chars) ==
    { [range |-> << a, b >>, style |-> chars[b].style] :
         << a, b >> \in { ab \in (0 .. Len(chars)) \X (1 .. Len(chars)) :
            /\ ab[1] < ab[2]
            /\ chars[ab[2]].style # DefaultStyle
            /\ \A k \in (ab[1] + 1) .. ab[2] : chars[k].style = chars[ab[2]].style
            /\ ab[1] = 0 \/ chars[ab[1]].style # chars[ab[2]].style
            /\ ab[2] = Len(chars) \/ chars[ab[2] + 1].style # chars[ab[2]].style } }

\* C15: for a Markdown block of inline markup the flat text is the
\* concatenation of the text tokens, and the highlights are exactly the maximal
\* runs of text of one style other than the default, one entry for each; text
\* outside strong, emphasis and links has no entry.
C15_MarkupBecomesMaximalRuns ==
    (InFirstMarkdownBlock /\ InlineMarkup(Processed)) =>
        LET chars == MarkedChars(Processed, 0, 0, 0)
            highlights == render.r.highlights
        IN  /\ render.r.text = [k \in 1 .. Len(chars) |-> chars[k].char]
            /\ { highlights[n] : n \in DOMAIN highlights } = MaximalRuns(chars)
            /\ Len(highlights) = Cardinality(MaximalRuns(chars))

\* a paragraph is rendered in which two styled text tokens made one highlight
\* and plain text made none
C15_Witness ==
    /\ InFirstMarkdownBlock
    /\ render.event = Len(CurrentBlock.text) + 1
    /\ InlineMarkup(Processed)
    /\ Len(render.r.highlights) = 1
    /\ render.r.highlights[1].range[2] - render.r.highlights[1].range[1] = 2
    /\ \E k \in DOMAIN render.r.text : render.r.text[k] = "a"

\* the lists open after the events, innermost last: the first number of each
\* and how many of its items have started
RECURSIVE OpenLists(_, _)
OpenLists(events, open) ==
    IF events = << >> THEN open
    ELSE LET e == Head(events)
             n == Len(open)
         IN  OpenLists(Tail(events),
                IF e.event = "Start" /\ e.tag.name = "List"
                THEN Append(open, [number |-> e.tag.number, items |-> 0])
                ELSE IF e.event = "End" /\ e.tag.name = "List"
                THEN SubSeq(open, 1, n - 1)
                ELSE IF e.event = "Start" /\ e.tag.name = "Item"
                THEN [open EXCEPT ![n].items = @ + 1]
                ELSE open)

\* the event rendered last was the start of a list item
ItemJustStarted ==
    /\ render.returned = None
    /\ render.event > 1
    /\ CurrentBlock.text[render.event - 1] = Start(Item)

\* C16: an item of an ordered list that starts at number start is prefixed, as
\* the k-th item of its list (k = 0, 1, ..), with "<start+k>. ", an item of a
\* bullet list with "* "; the prefix follows exactly 2 * (depth - 1) spaces at
\* the start of a line; the items of a nested list do not count for the list
\* around it.
C16_ItemPrefixCountsOwnList ==
    ItemJustStarted =>
        LET open   == OpenLists(SubSeq(CurrentBlock.text, 1, render.event - 2), << >>)
            depth  == Len(open)
            list   == open[depth]
            prefix == IF list.number # None
                      THEN Decimal(list.number[1] + list.items) \o << ".", " " >>
                      ELSE << "*", " " >>
            line   == [k \in 1 .. 2 * (depth - 1) |-> " "] \o prefix
            text   == render.r.text
        IN  /\ Len(text) >= Len(line)
            /\ SubSeq(text, Len(text) - Len(line) + 1, Len(text)) = line
            /\ Len(text) = Len(line) \/ text[Len(text) - Len(line)] = "\n"

\* the second item of a list that starts at 9 begins, after a list nested in
\* its first item has ended
C16_Witness ==
    /\ ItemJustStarted
    /\ LET before == SubSeq(CurrentBlock.text, 1, render.event - 2)
           open   == OpenLists(before, << >>)
       IN  /\ open = << [number |-> Some(9), items |-> 1] >>
           /\ \E k \in DOMAIN before : before[k] = End(List(Some(1)))
    /\ SubSeq(render.r.text, Len(render.r.text) - 3, Len(render.r.text))
          = << "1", "0", ".", " " >>

\* how many events of the Markdown block i have been rendered
EventsDone(i) ==
    IF i < render.block THEN Len(render.blocks[i].text)
    ELSE IF i = render.block /\ render.event > 0 THEN render.event - 1
    ELSE 0

\* the length of the buffer when k events of the Markdown block i are rendered
TextLenAt(i, k) ==
    LET entered == MarkdownLocals(RenderBlocks(NewRender(render.r.language_registry),
                                               SubSeq(render.blocks, 1, i - 1)))
    IN  Len(RenderEvents(entered, SubSeq(render.blocks[i].text, 1, k)).text)

IsLinkEvent(e, event) == e.event = event /\ e.tag.name = "Link"

\* the ends of links rendered so far, as << block, event >>
LinkEnds ==
    UNION { { << i, k >> : k \in { k \in 1 .. EventsDone(i) :
                                     IsLinkEvent(render.blocks[i].text[k], "End") } } :
            i \in { i \in DOMAIN render.blocks : render.blocks[i].kind = "Markdown" } }

\* the elements of a set of pairs in lexicographic order
RECURSIVE InOrder(_)
InOrder(S) ==
    IF S = {} THEN << >>
    ELSE LET first == CHOOSE x \in S :
                         \A y \in S : x[1] < y[1] \/ (x[1] = y[1] /\ x[2] <= y[2])
         IN  << first >> \o InOrder(S \ {first})

\* the start of the link that ends at event k of block i
LinkStart(i, k) ==
    CHOOSE s \in 1 .. k :
       /\ IsLinkEvent(render.blocks[i].text[s], "Start")
       /\ \A t \in (s + 1) .. (k - 1) : ~IsLinkEvent(render.blocks[i].text[t], "Start")

\* C17: link_ranges and link_urls have the same length; entry i of link_ranges
\* runs from the length of the buffer at the start of the i-th link to its
\* length at the end of that link, entry i of link_urls is the url of that
\* link; every link range lies within the text.
C17_LinkTablesCorrespond ==
    LET ends == InOrder(LinkEnds)
        r    == render.r
    IN  /\ Len(r.link_ranges) = Len(r.link_urls)
        /\ Len(r.link_ranges) = Len(ends)
        /\ \A n \in DOMAIN ends :
              LET i == ends[n][1]
                  k == ends[n][2]
                  s == LinkStart(i, k)
              IN  /\ r.link_ranges[n] = << TextLenAt(i, s - 1), TextLenAt(i, k - 1) >>
                  /\ r.link_urls[n] = render.blocks[i].text[s].tag.url
        /\ \A n \in DOMAIN r.link_ranges :
              /\ 0 <= r.link_ranges[n][1]
              /\ r.link_ranges[n][1] <= r.link_ranges[n][2]
              /\ r.link_ranges[n][2] <= Len(r.text)

\* a document with two links of different urls has been rendered
C17_Witness ==
    /\ render.returned # None
    /\ render.returned[1].link_urls = << "other-url", "the-url" >>
    /\ render.returned[1].link_ranges[1][1] > 0

\* C18: every highlight is a range with start <= end <= the length of the text,
\* and the highlights are in order and do not overlap: each one ends no later
\* than the next one starts.
C18_HighlightsOrderedWithinText ==
    LET highlights == render.r.highlights
    IN  /\ \A n \in DOMAIN highlights :
              /\ 0 <= highlights[n].range[1]
              /\ highlights[n].range[1] <= highlights[n].range[2]
              /\ highlights[n].range[2] <= Len(render.r.text)
        /\ \A n \in 1 .. (Len(highlights) - 1) :
              highlights[n].range[2] <= highlights[n + 1].range[1]

\* text in a heading and in strong markup is followed by highlighted code
C18_Witness ==
    /\ render.returned # None
    /\ LET highlights == render.returned[1].highlights
       IN  /\ Len(highlights) >= 3
           /\ highlights[1].style.weight = Some("BOLD")
           /\ highlights[Len(highlights)].style.color = Some("keyword")

\* C19: from a trigger that starts a request until the next dismiss or the next
\* trigger that starts one, triggered_from is the location of that trigger:
\* while hover_state holds a request task, whether in flight or answered,
\* triggered_from is the anchor the task was triggered at.
C19_TriggeredFromIsRequestLocation ==
    info_task # None => triggered_from = Some(StoredTask.point)

\* C20: the query of a trigger that is not immediate is sent only by its task,
\* still stored, when the request delay has elapsed, and it is sent then
\* whether or not the total delay has elapsed; a task that is superseded or
\* dismissed before its request delay has elapsed has sent no query and never
\* sends one, so of the triggers of a sweep only the last can send a query.
C20_QueryWaitsForRequestDelayOnly ==
    [][\A t \in DOMAIN tasks :
          /\ (Live(t) /\ ~tasks[t].queried /\ tasks'[t].queried /\ ~tasks[t].ignore_timeout)
                => /\ info_task = Some(t)
                   /\ tasks[t].elapsed >= HOVER_REQUEST_DELAY_MILLIS
          /\ (Live(t) /\ tasks[t].pc = "request_delay" /\ TaskStep(t))
                => tasks'[t].queried
          /\ (Live(t) /\ ~Live(t)' /\ ~tasks[t].ignore_timeout
                      /\ tasks[t].elapsed < HOVER_REQUEST_DELAY_MILLIS)
                => ~tasks'[t].queried
          /\ ~Live(t) => tasks'[t] = tasks[t]]_vars

\* a sweep of three triggers: the first two were superseded without a query,
\* the third has sent its query and still waits for the total delay
C20_Witness ==
    /\ Len(tasks) = 3
    /\ \A t \in 1 .. 2 : ~Live(t) /\ ~tasks[t].queried
    /\ info_task = Some(3)
    /\ ~tasks[3].ignore_timeout
    /\ tasks[3].pc = "total_delay"
    /\ tasks[3].queried
    /\ tasks[3].elapsed < HOVER_DELAY_MILLIS

\* the tasks that can still run: neither dropped nor finished
Running == { t \in DOMAIN tasks : tasks[t].pc \notin {"dropped", "done"} }

\* the queries sent to the server that are neither answered nor abandoned
OutstandingQueries ==
    { t \in DOMAIN tasks : Live(t) /\ tasks[t].hover_request.state = "pending" }

\* C21: at most one request task is live, and it is the stored one; at most
\* one hover query is outstanding: a task that is replaced or dismissed is
\* abandoned with its timers and its query before another query is sent.
C21_SingleLiveRequest ==
    /\ Cardinality(Running) <= 1
    /\ \A t \in Running : info_task = Some(t)
    /\ Cardinality(OutstandingQueries) <= 1
    /\ \A t \in OutstandingQueries : info_task = Some(t)

\* a task was abandoned after it had sent its query, and the task that
\* replaced it waits for the answer to its own
C21_Witness ==
    /\ \E t \in DOMAIN tasks : ~Live(t) /\ tasks[t].queried
    /\ info_task # None
    /\ OutstandingQueries = { info_task[1] }

\* C22: with fair timers, server and executor, every request task that is
\* started finishes unless it is superseded or dismissed; it sends its query
\* once and never again; and when it finishes, info_popover holds a popover
\* with the blocks of the response if the response had contents and is empty
\* otherwise.
C22_UnsupersededRequestFinishes ==
    /\ \A t \in 1 .. MaxTasks :
          (t \in DOMAIN tasks)
             ~> (t \in DOMAIN tasks /\ tasks[t].pc \in {"done", "dropped"})
    /\ [][\A t \in DOMAIN tasks :
             /\ (Live(t) /\ tasks[t].queried)
                   => ~(/\ tasks[t].hover_request.state = "ready"
                        /\ Live(t)'
                        /\ tasks'[t].hover_request.state # "ready")
             /\ (Live(t) /\ tasks[t].pc # "done" /\ tasks'[t].pc = "done")
                   => LET response == tasks[t].hover_request.response
                      IN  /\ tasks[t].queried
                          /\ tasks[t].hover_request.state = "ready"
                          /\ IF NoResult(response)
                             THEN info_popover' = None
                             ELSE /\ info_popover' # None
                                  /\ info_popover'[1].blocks = response.hover[1].contents]_vars

\* a request has finished with a popover for a response with contents
C22_Witness ==
    /\ info_task # None
    /\ StoredTask.pc = "done"
    /\ ~StoredTask.ignore_timeout
    /\ info_popover # None
    /\ info_popover[1].blocks = StoredTask.hover_request.response.hover[1].contents

\* the entries of the diagnostics source whose range contains the offset
Covering(offset) == { i \in DOMAIN Diagnostics : Contains(Diagnostics[i].range, offset) }

\* C23: the request assigns the diagnostic popover of an entry that contains
\* the triggering offset and has the minimum range length among those that do,
\* the first such entry in the iteration order of the diagnostics source; when
\* no entry contains the offset it empties the diagnostic popover slot.
C23_LocalDiagnosticIsFirstShortest ==
    [][\A t \in DOMAIN tasks :
          AssignsDiagnostic(t) =>
             LET covering  == Covering(tasks[t].point)
                 Length(i) == Diagnostics[i].range[2] - Diagnostics[i].range[1]
             IN  IF covering = {}
                 THEN diagnostic_popover' = None
                 ELSE /\ diagnostic_popover' # None
                      /\ \E i \in covering :
                            /\ \A j \in covering : Length(i) <= Length(j)
                            /\ \A j \in covering : Length(j) = Length(i) => i <= j
                            /\ diagnostic_popover'[1].local_diagnostic = Diagnostics[i]]_vars

\* the popover shows the first of two equally short entries, and a request at
\* an offset without a diagnostic is about to empty the slot
C23_Witness ==
    /\ diagnostic_popover # None
    /\ diagnostic_popover[1].local_diagnostic = Diagnostics[1]
    /\ Cardinality({ i \in Covering(1) :
                       RangeLen(Diagnostics[i]) = RangeLen(Diagnostics[1]) }) = 2
    /\ info_task # None
    /\ Covering(StoredTask.point) = {}
    /\ StoredTask.pc = "spawned"

\* the buffer ends in a blank line
EndsInBlankLine(text) ==
    Len(text) >= 2 /\ text[Len(text)] = "\n" /\ text[Len(text) - 1] = "\n"

\* the step about to be taken renders the start of a paragraph, of a heading
\* or of a code block
StartsBlockElement ==
    /\ render.returned = None
    /\ render.event > 0
    /\ render.event <= Len(CurrentBlock.text)
    /\ CurrentBlock.text[render.event].event = "Start"
    /\ CurrentBlock.text[render.event].tag.name \in {"Paragraph", "Heading", "CodeBlock"}

\* C24: new_paragraph adds a separator only to a buffer that is not empty and
\* does not end in a blank line: the start of a paragraph, heading or code
\* block leaves an empty buffer and a buffer that ends in "\n\n" as it is, and
\* a PlainText block appends just its text to such a buffer.
C24_NewParagraphAddsNoSecondSeparator ==
    [][ /\ (StartsBlockElement /\ StepEvent
              /\ (render.r.text = << >> \/ EndsInBlankLine(render.r.text)))
           => render'.r.text = render.r.text
        /\ (BetweenBlocks /\ StepPlainText
              /\ (render.r.text = << >> \/ EndsInBlankLine(render.r.text)))
           => render'.r.text = render.r.text \o CurrentBlock.text ]_vars

\* C25: no two consecutive highlights are adjacent and of the same style:
\* content appended right after a highlight of its own style extends that
\* highlight.
C25_AdjacentEqualHighlightsMerged ==
    LET highlights == render.r.highlights
    IN  \A n \in 1 .. (Len(highlights) - 1) :
           ~ /\ highlights[n].range[2] = highlights[n + 1].range[1]
             /\ highlights[n].style = highlights[n + 1].style

\* what render_blocks called with the given registry has built when it has
\* rendered as much of the same blocks as the call under way
RenderedSoFar(language_registry) ==
    LET done == RenderBlocks(NewRender(language_registry),
                             SubSeq(render.blocks, 1, render.block - 1))
    IN  IF render.event > 0
        THEN RenderEvents(MarkdownLocals(done), SubSeq(CurrentBlock.text, 1, render.event - 1))
        ELSE done

\* a highlight pushed by render_code
IsSyntaxHighlight(highlight) == highlight.style.color \notin {None, Some("red")}

\* C26: whichever languages the registry resolves, render_blocks builds the
\* same text and the same link tables for the same blocks; with a registry
\* that resolves none, code is appended verbatim and the highlights are those
\* of the call under way without the ones of highlighted code.
C26_LanguagesChangeOnlyHighlights ==
    /\ \A language_registry \in Registries :
          LET other == RenderedSoFar(language_registry)
          IN  /\ other.text = render.r.text
              /\ other.link_ranges = render.r.link_ranges
              /\ other.link_urls = render.r.link_urls
    /\ LET IsOther(highlight) == ~IsSyntaxHighlight(highlight)
       IN  RenderedSoFar({}).highlights = SelectSeq(render.r.highlights, IsOther)

\* a call that resolves no language has rendered code that a call resolving
\* every language highlights
C26_Witness ==
    /\ render.returned # None
    /\ render.r.language_registry = {}
    /\ \E i \in DOMAIN render.blocks : render.blocks[i].kind = "Code"
    /\ \E i \in DOMAIN render.blocks : render.blocks[i].kind = "Markdown"
    /\ render.returned[1].highlights = << >>
    /\ Len(RenderedSoFar({"rust", "cobol"}).highlights) >= 2

\* C27: in every reachable state the symbol's background highlight is set
\* exactly when an info popover is present; when set it is the one range
\* symbol_range of that popover; and a present info popover has at least one
\* block.
C27_HighlightFollowsInfoPopover ==
    /\ (background_highlights # None) <=> (info_popover # None)
    /\ info_popover # None =>
          /\ background_highlights = Some(info_popover[1].symbol_range)
          /\ info_popover[1].blocks # << >>

\* C27 witness: after an earlier request, the stored request has ended on a
\* response with contents and no range; the popover's range is the empty range
\* at the request's anchor and the highlight is that range.
C27_Witness ==
    /\ info_task # None
    /\ info_task[1] > 1
    /\ StoredTask.pc = "done"
    /\ StoredTask.hover_request.response.ok
    /\ StoredTask.hover_request.response.hover # None
    /\ StoredTask.hover_request.response.hover[1].range = None
    /\ info_popover # None
    /\ info_popover[1].symbol_range = << StoredTask.point, StoredTask.point >>
    /\ background_highlights = Some(<< StoredTask.point, StoredTask.point >>)

====
